---- MODULE Spec2Model ----
(***************************************************************************)
(* EconFinancas 4 (src/EconFinancas4/app.py): the category and expense     *)
(* tables and the JSON handlers over them.                                  *)
(*                                                                          *)
(* One HTTP exchange is three steps: the client sends a request, the route  *)
(* handler runs to completion (one action per method of a route, the whole  *)
(* handler at once), the client takes the response.  The store is SQLite    *)
(* through SQLAlchemy: a commit persists the session's changes, foreign     *)
(* keys are not enforced by the engine, and an integer primary key is       *)
(* max(rowid) + 1.  Amounts are whole numbers.                              *)
(***************************************************************************)
EXTENDS Integers, Sequences, FiniteSets, TLC

VARIABLES categories, expenses, request, response

vars == <<categories, expenses, request, response>>

(* ------------------------------ bounds -------------------------------- *)

\* Largest category id the model lets the store hand out.
MaxCategoryId == 7
\* Largest number of expense rows, and of distinct expense identifiers.
MaxExpenses == 2

(* --------------------------- Python values ---------------------------- *)

\* A JSON value as request.get_json() yields it.  "absent" is a key the
\* body does not hold; num is the number, the truth value (1/0) or the
\* length of an array or object; str is the text of a string.
JAbsent == [kind |-> "absent", num |-> 0, str |-> ""]
JNull == [kind |-> "null", num |-> 0, str |-> ""]
JTrue == [kind |-> "bool", num |-> 1, str |-> ""]
JFalse == [kind |-> "bool", num |-> 0, str |-> ""]
JNum(n) == [kind |-> "number", num |-> n, str |-> ""]
JStr(s) == [kind |-> "string", num |-> 0, str |-> s]
JArray(len) == [kind |-> "array", num |-> len, str |-> ""]
JObject(len) == [kind |-> "object", num |-> len, str |-> ""]

\* data.get(key): None when the key is absent.
Get(v) == IF v.kind = "absent" THEN JNull ELSE v

\* data.get(key, default).
GetDefault(v, default) == IF v.kind = "absent" THEN default ELSE v

\* Python truth of a value (`not x`, all([...]), `if x:`).
Truthy(v) ==
  CASE v.kind \in {"absent", "null"} -> FALSE
    [] v.kind \in {"bool", "number", "array", "object"} -> v.num # 0
    [] v.kind = "string" -> v.str # ""

\* The characters of the strings the model sends where their text matters
\* (float() parses them, ORDER BY compares them).
Chars(s) ==
  CASE s = "2" -> <<"2">>
    [] s = "-1" -> <<"-", "1">>
    [] s = "abc" -> <<"a", "b", "c">>
    [] s = "2024-03-01" -> <<"2", "0", "2", "4", "-", "0", "3", "-", "0", "1">>
    [] s = "2024-03-02" -> <<"2", "0", "2", "4", "-", "0", "3", "-", "0", "2">>
    [] OTHER -> <<>>

Digits == {"0", "1", "2", "3", "4", "5", "6", "7", "8", "9"}

\* Code point of a character.
Ord(c) ==
  CASE c = "-" -> 45
    [] c = "0" -> 48 [] c = "1" -> 49 [] c = "2" -> 50 [] c = "3" -> 51
    [] c = "4" -> 52 [] c = "5" -> 53 [] c = "6" -> 54 [] c = "7" -> 55
    [] c = "8" -> 56 [] c = "9" -> 57
    [] c = "a" -> 97 [] c = "b" -> 98 [] c = "c" -> 99
    [] OTHER -> 0

RECURSIVE DigitsValue(_, _)
\* Value of a run of decimal digits, most significant first.
DigitsValue(cs, acc) ==
  IF cs = <<>> THEN acc
  ELSE DigitsValue(Tail(cs), 10 * acc + (Ord(Head(cs)) - 48))

AllDigits(cs) == cs # <<>> /\ \A i \in 1..Len(cs) : cs[i] \in Digits

Ok(n) == [exc |-> "none", val |-> n]
Raise(e) == [exc |-> e, val |-> 0]

\* float(str): an optional sign and decimal digits; anything else of the
\* strings modelled raises ValueError.
FloatOfStr(s) ==
  LET cs == Chars(s) IN
  IF AllDigits(cs) THEN Ok(DigitsValue(cs, 0))
  ELSE IF cs # <<>> /\ Head(cs) = "-" /\ AllDigits(Tail(cs))
       THEN Ok(0 - DigitsValue(Tail(cs), 0))
       ELSE Raise("ValueError")

\* float(x): numbers and booleans convert, strings are parsed, None, lists
\* and dicts raise TypeError.
PyFloat(v) ==
  CASE v.kind \in {"number", "bool"} -> Ok(v.num)
    [] v.kind = "string" -> FloatOfStr(v.str)
    [] OTHER -> Raise("TypeError")

RECURSIVE SeqLess(_, _)
\* Lexicographic order of character sequences by code point.
SeqLess(a, b) ==
  IF b = <<>> THEN FALSE
  ELSE IF a = <<>> THEN TRUE
  ELSE IF Ord(Head(a)) # Ord(Head(b)) THEN Ord(Head(a)) < Ord(Head(b))
  ELSE SeqLess(Tail(a), Tail(b))

\* SQLite's comparison of two TEXT values (BINARY collation).
StrLess(s, t) == SeqLess(Chars(s), Chars(t))

(* ------------------------------ the store ----------------------------- *)

OUTROS == "Outros"

\* The categories init_db() inserts, in order, ids 1..7, budget 0.0.
DefaultCategories ==
  <<"Alimentacao", "Transporte", "Lazer", "Moradia", "Saude", "Educacao", OUTROS>>

\* Identifiers uuid.uuid4() can return, as opaque values.
ExpenseIds == 1..MaxExpenses

CategoryIdsOf(cats) == {c.id : c \in cats}

Max(S) == CHOOSE m \in S : \A x \in S : x <= m

\* The id SQLite gives the next category row: max(rowid) + 1, 1 if empty.
NewCategoryId(cats) == IF cats = {} THEN 1 ELSE Max(CategoryIdsOf(cats)) + 1

\* Category(name=..., budget=...) added and committed.
NewCategory(cats, name, budget) ==
  [id |-> NewCategoryId(cats), name |-> name, budget |-> budget]

\* Category.query.filter_by(name=name): the rows with that name.
CategoriesNamed(cats, name) == {c \in cats : c.name = name}

\* Category.query.get(category_id): the rows with that id (none or one).
CategoriesWithId(cats, id) == {c \in cats : c.id = id}

\* Expense.query.get(expense_id).
ExpensesWithId(exps, id) == {e \in exps : e.id = id}

\* Category.to_dict().
CategoryDict(c) == [id |-> c.id, name |-> c.name, budget |-> c.budget]

\* Expense.to_dict(): category is the name of the row category_id points
\* at, None when there is no such row.
ExpenseDict(e, cats) ==
  [id |-> e.id, value |-> e.value, date |-> e.date,
   description |-> e.description,
   category |-> IF CategoriesWithId(cats, e.category_id) = {} THEN JNull
                ELSE JStr((CHOOSE c \in cats : c.id = e.category_id).name),
   category_id |-> e.category_id]

(* ------------------------ requests and responses ---------------------- *)

NoBody ==
  [name |-> JAbsent, budget |-> JAbsent, value |-> JAbsent, date |-> JAbsent,
   category |-> JAbsent, description |-> JAbsent]

NoRequest == [method |-> "none", route |-> "none", id |-> 0, data |-> NoBody]

\* status 0: no response yet.
Response(status, error, items, n) ==
  [status |-> status, error |-> error, items |-> items, n |-> n]

NoResponse == Response(0, "", <<>>, 0)

Error(status, error) == Response(status, error, <<>>, 0)

\* An exception no handler catches: Flask answers 500.
Unhandled == Error(500, "Internal Server Error")

\* The outcome of a handler: the response and the tables it leaves.
Outcome(resp, cats, exps) == [response |-> resp, categories |-> cats, expenses |-> exps]

(* ------------------------------ handlers ------------------------------ *)

\* handle_categories, GET: every category (table order, by id).
RECURSIVE CategoryList(_)
CategoryList(cats) ==
  IF cats = {} THEN <<>>
  ELSE LET last == CHOOSE c \in cats : c.id = Max(CategoryIdsOf(cats))
       IN Append(CategoryList(cats \ {last}), CategoryDict(last))

GetCategoriesOutcome(cats, exps) ==
  Outcome(Response(200, "", CategoryList(cats), 0), cats, exps)

\* handle_categories, POST.
PostCategoryOutcome(cats, exps, data) ==
  LET name == Get(data.name)
      budget == GetDefault(data.budget, JNum(0))
      parsed == PyFloat(budget)
  IN IF ~Truthy(name)
       THEN Outcome(Error(400, "Category name is required"), cats, exps)
     ELSE IF CategoriesNamed(cats, name.str) # {}
       THEN Outcome(Error(409, "Category with this name already exists"), cats, exps)
     ELSE IF parsed.exc = "ValueError"
       THEN Outcome(Error(400, "Invalid budget format"), cats, exps)
     ELSE IF parsed.exc = "TypeError"
       THEN Outcome(Unhandled, cats, exps)
     ELSE IF parsed.val < 0
       THEN Outcome(Error(400, "Budget cannot be negative"), cats, exps)
     ELSE LET new_category == NewCategory(cats, name.str, parsed.val)
          IN Outcome(Response(201, "", <<CategoryDict(new_category)>>, 0),
                     cats \cup {new_category}, exps)

\* The conflict test of PUT without the exemption of the category's own name.
PutNameConflictOwnNameToo(cats, category, new_name) ==
  CategoriesNamed(cats, new_name) # {}

\* handle_category, PUT: the new name is some category's and not this one's.
PutNameConflict(cats, category, new_name) ==
  CategoriesNamed(cats, new_name) # {} /\ new_name # category.name

\* handle_category, PUT.
PutCategoryOutcome(cats, exps, category_id, data) ==
  LET new_name == Get(data.name)
      new_budget == Get(data.budget)
      parsed == PyFloat(new_budget)
  IN IF CategoriesWithId(cats, category_id) = {}
       THEN Outcome(Error(404, "Category not found"), cats, exps)
     ELSE LET category == CHOOSE c \in cats : c.id = category_id IN
     IF ~Truthy(new_name)
       THEN Outcome(Error(400, "New category name is required"), cats, exps)
     ELSE IF PutNameConflict(cats, category, new_name.str)
       THEN Outcome(Error(409, "Category with this name already exists"), cats, exps)
     ELSE IF new_budget.kind # "null" /\ parsed.exc = "ValueError"
       THEN Outcome(Error(400, "Invalid budget format"), cats, exps)
     ELSE IF new_budget.kind # "null" /\ parsed.exc = "TypeError"
       THEN Outcome(Unhandled, cats, exps)
     ELSE IF new_budget.kind # "null" /\ parsed.val < 0
       THEN Outcome(Error(400, "Budget cannot be negative"), cats, exps)
     ELSE LET updated ==
                [id |-> category.id, name |-> new_name.str,
                 budget |-> IF new_budget.kind # "null" THEN parsed.val
                            ELSE category.budget]
          IN Outcome(Response(200, "", <<CategoryDict(updated)>>, 0),
                     (cats \ {category}) \cup {updated}, exps)

\* handle_category, DELETE: 'Outros' found, or created and committed; the
\* category's expenses pointed at it; the category row deleted.
DeleteCategoryOutcome(cats, exps, category_id) ==
  IF CategoriesWithId(cats, category_id) = {}
    THEN Outcome(Error(404, "Category not found"), cats, exps)
  ELSE LET category == CHOOSE c \in cats : c.id = category_id
           withDefault == IF CategoriesNamed(cats, OUTROS) = {}
                          THEN cats \cup {NewCategory(cats, OUTROS, 0)}
                          ELSE cats
           default_category == CHOOSE c \in withDefault : c.name = OUTROS
           reassigned == {IF e.category_id = category.id
                          THEN [e EXCEPT !.category_id = default_category.id]
                          ELSE e : e \in exps}
       IN Outcome(Response(200, "Category deleted and expenses reallocated successfully", <<>>, 0),
                  withDefault \ {category}, reassigned)

\* The orders of an ascending sort: .asc() in place of .desc().
DateAscOrders(rows) ==
  {f \in [1..Cardinality(rows) -> rows] :
     /\ \A i, j \in 1..Cardinality(rows) : i # j => f[i] # f[j]
     /\ \A i, j \in 1..Cardinality(rows) : i < j => ~StrLess(f[j].date, f[i].date)}

\* The orders .order_by(Expense.date.desc()).all() may return the rows in:
\* date non-increasing, rows of equal date in any order.
DateDescOrders(rows) ==
  {f \in [1..Cardinality(rows) -> rows] :
     /\ \A i, j \in 1..Cardinality(rows) : i # j => f[i] # f[j]
     /\ \A i, j \in 1..Cardinality(rows) : i < j => ~StrLess(f[i].date, f[j].date)}

\* handle_expenses, GET: the rows the query selects, or the error.  data
\* holds request.args (category, date).
GetExpensesQuery(cats, exps, data) ==
  LET category_filter == Get(data.category)
      date_filter == Get(data.date)
      byCategory ==
        IF Truthy(category_filter)
        THEN {e \in exps : \E c \in CategoriesNamed(cats, category_filter.str) :
                             e.category_id = c.id}
        ELSE exps
      byDate == IF Truthy(date_filter)
                THEN {e \in byCategory : e.date = date_filter.str}
                ELSE byCategory
  IN IF Truthy(category_filter) /\ CategoriesNamed(cats, category_filter.str) = {}
     THEN [status |-> 404, rows |-> {}]
     ELSE [status |-> 200, rows |-> byDate]

GetExpensesOutcome(cats, exps, data, order) ==
  LET query == GetExpensesQuery(cats, exps, data)
  IN IF query.status = 404
     THEN Outcome(Error(404, "Category not found for filtering"), cats, exps)
     ELSE Outcome(Response(200, "", [i \in 1..Len(order) |-> ExpenseDict(order[i], cats)], 0),
                  cats, exps)

\* The checks POST and PUT of an expense make on value, date and category
\* before touching the store: the response that ends the request, or
\* status 0 and the parsed value.
ExpenseFieldsCheck(data) ==
  LET value == Get(data.value)
      date == Get(data.date)
      category_name == Get(data.category)
      parsed == PyFloat(value)
  IN IF ~(Truthy(value) /\ Truthy(date) /\ Truthy(category_name))
       THEN [response |-> Error(400, "Value, date, and category are required"), value |-> 0]
     ELSE IF parsed.exc = "ValueError"
       THEN [response |-> Error(400, "Invalid value format"), value |-> 0]
     ELSE IF parsed.exc = "TypeError"
       THEN [response |-> Unhandled, value |-> 0]
     ELSE IF parsed.val <= 0
       THEN [response |-> Error(400, "Value must be positive"), value |-> 0]
     ELSE [response |-> NoResponse, value |-> parsed.val]

\* "Find or create category" taken literally: an unknown name is created.
FindOrCreateCategory(cats, category_name) ==
  IF CategoriesNamed(cats, category_name) = {}
  THEN cats \cup {NewCategory(cats, category_name, 0)}
  ELSE cats

\* handle_expenses, POST: the category table once the expense's category
\* is resolved; 'Outros' is created and committed when neither the named
\* category nor 'Outros' exists.
WithDefaultCategory(cats, category_name) ==
  IF CategoriesNamed(cats, category_name) = {} /\ CategoriesNamed(cats, OUTROS) = {}
  THEN cats \cup {NewCategory(cats, OUTROS, 0)}
  ELSE cats

\* handle_expenses, POST; uuid is what uuid.uuid4() returns.
PostExpenseOutcome(cats, exps, data, uuid) ==
  LET check == ExpenseFieldsCheck(data)
      category_name == Get(data.category)
  IN IF check.response.status # 0 THEN Outcome(check.response, cats, exps)
     ELSE LET withDefault == WithDefaultCategory(cats, category_name.str)
              category ==
                IF CategoriesNamed(withDefault, category_name.str) # {}
                THEN CHOOSE c \in withDefault : c.name = category_name.str
                ELSE CHOOSE c \in withDefault : c.name = OUTROS
              new_expense ==
                [id |-> uuid, value |-> check.value, date |-> Get(data.date).str,
                 description |-> Get(data.description), category_id |-> category.id]
          IN Outcome(Response(201, "", <<ExpenseDict(new_expense, withDefault)>>, 0),
                     withDefault, exps \cup {new_expense})

\* The category of PUT resolved as POST resolves it: 'Outros' when unknown.
PutExpenseCategoryOrDefault(cats, category_name) ==
  IF CategoriesNamed(cats, category_name) = {}
  THEN CategoriesNamed(cats, OUTROS)
  ELSE CategoriesNamed(cats, category_name)

\* handle_expense, PUT: Category.query.filter_by(name=category_name).
PutExpenseCategory(cats, category_name) == CategoriesNamed(cats, category_name)

\* handle_expense, PUT.
PutExpenseOutcome(cats, exps, expense_id, data) ==
  LET check == ExpenseFieldsCheck(data)
      category_name == Get(data.category)
  IN IF ExpensesWithId(exps, expense_id) = {}
       THEN Outcome(Error(404, "Expense not found"), cats, exps)
     ELSE IF check.response.status # 0 THEN Outcome(check.response, cats, exps)
     ELSE IF PutExpenseCategory(cats, category_name.str) = {}
       THEN Outcome(Error(404, "Category not found"), cats, exps)
     ELSE LET expense == CHOOSE e \in exps : e.id = expense_id
              category == CHOOSE c \in PutExpenseCategory(cats, category_name.str) : TRUE
              updated ==
                [id |-> expense.id, value |-> check.value, date |-> Get(data.date).str,
                 description |-> Get(data.description), category_id |-> category.id]
          IN Outcome(Response(200, "", <<ExpenseDict(updated, cats)>>, 0),
                     cats, (exps \ {expense}) \cup {updated})

\* handle_expense, DELETE.
DeleteExpenseOutcome(cats, exps, expense_id) ==
  IF ExpensesWithId(exps, expense_id) = {}
    THEN Outcome(Error(404, "Expense not found"), cats, exps)
  ELSE Outcome(Response(200, "Expense deleted successfully", <<>>, 0),
               cats, exps \ ExpensesWithId(exps, expense_id))

\* reset_data without the rollback: a failed commit leaves the rows deleted.
ResetDataNoRollback(cats, exps, storage) ==
  IF storage = "ok"
    THEN Outcome(Response(200, "expenses deleted successfully", <<>>, Cardinality(exps)),
                 cats, {})
  ELSE Outcome(Error(500, "Failed to reset data"), cats,
               IF storage = "commit raises" THEN {} ELSE exps)

\* reset_data: the bulk delete and the commit succeed together, or one of
\* them raises and the session is rolled back.
ResetDataOutcome(cats, exps, storage) ==
  IF storage = "ok"
    THEN Outcome(Response(200, "expenses deleted successfully", <<>>, Cardinality(exps)),
                 cats, {})
  ELSE Outcome(Error(500, "Failed to reset data"), cats, exps)

StorageResults == {"ok", "delete raises", "commit raises"}

(* ------------------------------ the client ---------------------------- *)

\* Category names requests carry.
RequestNames == {OUTROS, "Lazer"}

NameInputs == {JAbsent} \cup {JStr(n) : n \in RequestNames}

BudgetInputs ==
  {JAbsent, JNull, JTrue, JNum(0 - 1), JNum(0), JNum(1), JStr("abc"), JArray(1)}

\* value, date and description as POST and PUT of an expense receive them:
\* two well-formed triples, the first with each other value a client can
\* put in the value field, and one without a date.
ValueInputs ==
  {JAbsent, JNull, JTrue, JNum(0), JNum(0 - 1), JStr("abc"), JStr("-1"),
   JArray(1), JObject(1)}

ExpenseFieldInputs ==
  {<<JNum(1), JStr("2024-03-01"), JAbsent>>,
   <<JStr("2"), JStr("2024-03-02"), JStr("almoco")>>,
   <<JNum(1), JAbsent, JAbsent>>}
  \cup {<<v, JStr("2024-03-01"), JAbsent>> : v \in ValueInputs}

\* The category and date parameters of GET /api/expenses; a parameter can
\* be given empty.
DateInputs == {JAbsent, JStr(""), JStr("2024-03-01"), JStr("2024-03-02")}

\* Category ids requests address: those of the seeded categories whose
\* names requests carry, and the ids a new category can get.
CategoryIdInputs ==
  {i \in 1..MaxCategoryId :
     i > Len(DefaultCategories) \/ DefaultCategories[i] \in RequestNames}

Request(method, route, id, data) ==
  [method |-> method, route |-> route, id |-> id, data |-> data]

CategoryBodies ==
  {[NoBody EXCEPT !.name = n, !.budget = b] : n \in NameInputs, b \in BudgetInputs}

ExpenseBodies ==
  {[NoBody EXCEPT !.value = f[1], !.date = f[2], !.description = f[3], !.category = c] :
     f \in ExpenseFieldInputs, c \in NameInputs}

\* request.args of GET /api/expenses.
ExpenseQueries ==
  {[NoBody EXCEPT !.category = c, !.date = d] :
     c \in NameInputs \cup {JStr("")}, d \in DateInputs}

Requests ==
  {Request("GET", "categories", 0, NoBody)}
  \cup {Request("POST", "categories", 0, b) : b \in CategoryBodies}
  \cup {Request("PUT", "category", i, b) : i \in CategoryIdInputs, b \in CategoryBodies}
  \cup {Request("DELETE", "category", i, NoBody) : i \in CategoryIdInputs}
  \cup {Request("GET", "expenses", 0, q) : q \in ExpenseQueries}
  \cup {Request("POST", "expenses", 0, b) : b \in ExpenseBodies}
  \cup {Request("PUT", "expense", i, b) : i \in ExpenseIds, b \in ExpenseBodies}
  \cup {Request("DELETE", "expense", i, NoBody) : i \in ExpenseIds}
  \cup {Request("DELETE", "reset_data", 0, NoBody)}

\* The tables a request leaves, whatever uuid4, the row order and the
\* storage do (none of them changes the ids or the number of rows).
TablesAfter(req) ==
  CASE req.method = "POST" /\ req.route = "categories" ->
         PostCategoryOutcome(categories, expenses, req.data)
    [] req.method = "DELETE" /\ req.route = "category" ->
         DeleteCategoryOutcome(categories, expenses, req.id)
    [] req.method = "POST" /\ req.route = "expenses" ->
         PostExpenseOutcome(categories, expenses, req.data, 0)
    [] OTHER -> Outcome(NoResponse, categories, expenses)

\* The requests the model follows: those that keep the tables in bounds.
InBounds(req) ==
  /\ \A c \in TablesAfter(req).categories : c.id <= MaxCategoryId
  /\ Cardinality(TablesAfter(req).expenses) <= MaxExpenses

Pending(method, route) ==
  request.method = method /\ request.route = route /\ response.status = 0

Answer(outcome) ==
  /\ response' = outcome.response
  /\ categories' = outcome.categories
  /\ expenses' = outcome.expenses
  /\ UNCHANGED request

(* ------------------------------ actions ------------------------------- *)

\* init_db(): the schema re-created and the default categories inserted.
Init ==
  /\ categories = {[id |-> i, name |-> DefaultCategories[i], budget |-> 0] :
                     i \in 1..Len(DefaultCategories)}
  /\ expenses = {}
  /\ request = NoRequest
  /\ response = NoResponse

Send ==
  /\ request = NoRequest
  /\ \E req \in Requests : InBounds(req) /\ request' = req
  /\ UNCHANGED <<categories, expenses, response>>

Receive ==
  /\ response.status # 0
  /\ request' = NoRequest
  /\ response' = NoResponse
  /\ UNCHANGED <<categories, expenses>>

GetCategories ==
  /\ Pending("GET", "categories")
  /\ Answer(GetCategoriesOutcome(categories, expenses))

PostCategory ==
  /\ Pending("POST", "categories")
  /\ Answer(PostCategoryOutcome(categories, expenses, request.data))

PutCategory ==
  /\ Pending("PUT", "category")
  /\ Answer(PutCategoryOutcome(categories, expenses, request.id, request.data))

DeleteCategory ==
  /\ Pending("DELETE", "category")
  /\ Answer(DeleteCategoryOutcome(categories, expenses, request.id))

GetExpenses ==
  /\ Pending("GET", "expenses")
  /\ \E order \in DateDescOrders(GetExpensesQuery(categories, expenses, request.data).rows) :
       Answer(GetExpensesOutcome(categories, expenses, request.data, order))

PostExpense ==
  /\ Pending("POST", "expenses")
  /\ \E uuid \in ExpenseIds \ {e.id : e \in expenses} :
       Answer(PostExpenseOutcome(categories, expenses, request.data, uuid))

PutExpense ==
  /\ Pending("PUT", "expense")
  /\ Answer(PutExpenseOutcome(categories, expenses, request.id, request.data))

DeleteExpense ==
  /\ Pending("DELETE", "expense")
  /\ Answer(DeleteExpenseOutcome(categories, expenses, request.id))

ResetData ==
  /\ Pending("DELETE", "reset_data")
  /\ \E storage \in StorageResults :
       Answer(ResetDataOutcome(categories, expenses, storage))

Next ==
  \/ Send
  \/ Receive
  \/ GetCategories
  \/ PostCategory
  \/ PutCategory
  \/ DeleteCategory
  \/ GetExpenses
  \/ PostExpense
  \/ PutExpense
  \/ DeleteExpense
  \/ ResetData

Spec == Init /\ [][Next]_vars

(* ------------------------------ properties ---------------------------- *)

\* The step in which the handler of a route answers the pending request.
Handles(method, route) == Pending(method, route) /\ response'.status # 0

TablesUnchanged == categories' = categories /\ expenses' = expenses

\* The request now answered: method, route and status of the exchange.
Answered(method, route, status) ==
  request.method = method /\ request.route = route /\ response.status = status

\* A number, or a string that reads as one.
IsNumeric(v) ==
  \/ v.kind = "number"
  \/ v.kind = "string" /\ FloatOfStr(v.str).exc = "none"

NumericValue(v) == IF v.kind = "number" THEN v.num ELSE FloatOfStr(v.str).val

UniqueNames ==
  \A c, d \in categories : c.name = d.name => c = d

\* C3: POST of a category under a name some category has, and PUT of an
\* existing category under a name another category has, answer 409 and
\* change no row; PUT under the category's own name is no conflict; and no
\* two categories ever have the same name.
C3_NamesStayUnique ==
  [][/\ UniqueNames /\ UniqueNames'
     /\ (Handles("POST", "categories")
           /\ request.data.name.kind = "string"
           /\ CategoriesNamed(categories, request.data.name.str) # {})
        => (response'.status = 409 /\ TablesUnchanged)
     /\ (Handles("PUT", "category")
           /\ request.data.name.kind = "string"
           /\ \E c \in categories : c.id = request.id
           /\ \E d \in categories : d.id # request.id /\ d.name = request.data.name.str)
        => (response'.status = 409 /\ TablesUnchanged)
     /\ (Handles("PUT", "category")
           /\ request.data.name.kind = "string"
           /\ \E c \in categories : c.id = request.id /\ c.name = request.data.name.str)
        => response'.status # 409]_vars

\* C3 witness: a PUT that would take another category's name was answered 409.
C3_Witness ==
  /\ Answered("PUT", "category", 409)
  /\ \E c, d \in categories :
       c.id = request.id /\ d.id # c.id /\ d.name = request.data.name.str

\* The value field is not a positive number: not numeric, or <= 0.
BadValue(v) == ~IsNumeric(Get(v)) \/ NumericValue(Get(v)) <= 0

\* C4: POST of an expense, and PUT of an existing one, whose value is <= 0
\* or not numeric (a non-numeric string, null, a boolean, an array, an
\* object) answers 400 and changes no row; every stored value is > 0.
C4_BadValueRejected ==
  [][/\ \A e \in expenses' : e.value > 0
     /\ ((Handles("POST", "expenses")
           \/ (Handles("PUT", "expense") /\ ExpensesWithId(expenses, request.id) # {}))
         /\ BadValue(request.data.value))
        => (response'.status = 400 /\ TablesUnchanged)]_vars

\* C5: POST of an expense with a positive numeric value, a date and a
\* non-empty category name no category has answers 201 and adds exactly
\* one expense, under an id no other expense has, on the category named
\* 'Outros'; the category table gains nothing but, if it had none, the
\* 'Outros' row with budget 0.
C5_UnknownCategoryFallsBackToOutros ==
  [][(Handles("POST", "expenses")
        /\ IsNumeric(request.data.value) /\ NumericValue(request.data.value) > 0
        /\ Truthy(request.data.date)
        /\ Truthy(request.data.category)
        /\ CategoriesNamed(categories, request.data.category.str) = {})
     => /\ response'.status = 201
        /\ \E e \in expenses' :
             /\ e \notin expenses
             /\ expenses' = expenses \cup {e}
             /\ \A x \in expenses : x.id # e.id
             /\ \E o \in categories' :
                  /\ o.name = OUTROS
                  /\ e.category_id = o.id
                  /\ categories' = IF CategoriesNamed(categories, OUTROS) = {}
                                   THEN categories \cup {o} ELSE categories
                  /\ CategoriesNamed(categories, OUTROS) = {} => o.budget = 0
             /\ response'.items = <<ExpenseDict(e, categories')>>]_vars

\* C5 witness: an expense sent under an unknown name other than 'Outros'
\* was answered 201 and the store has no category of that name.
C5_Witness ==
  /\ Answered("POST", "expenses", 201)
  /\ request.data.category.str # OUTROS
  /\ CategoriesNamed(categories, request.data.category.str) = {}
  /\ \E e \in expenses, o \in categories : o.name = OUTROS /\ e.category_id = o.id

\* C6: PUT of an existing expense with valid value and date and a category
\* name no category has answers 404, changes no field of the expense (no
\* row at all) and creates no category.
C6_PutUnknownCategoryIs404 ==
  [][(Handles("PUT", "expense")
        /\ ExpensesWithId(expenses, request.id) # {}
        /\ IsNumeric(request.data.value) /\ NumericValue(request.data.value) > 0
        /\ Truthy(request.data.date)
        /\ Truthy(request.data.category)
        /\ CategoriesNamed(categories, request.data.category.str) = {})
     => (response'.status = 404 /\ TablesUnchanged)]_vars

\* C6 witness: such a PUT, carrying other values than the expense holds,
\* was answered 404 while no 'Outros' exists.
C6_Witness ==
  /\ Answered("PUT", "expense", 404)
  /\ CategoriesNamed(categories, OUTROS) = {}
  /\ \E e \in expenses :
       /\ e.id = request.id
       /\ e.date # request.data.date.str
       /\ e.description # Get(request.data.description)
       /\ Truthy(request.data.category)

\* A query parameter that is in the query string, empty or not.
ParameterGiven(v) == v.kind = "string"

\* A query parameter that is in the query string and not empty.
ParameterNonEmpty(v) == v.kind = "string" /\ v.str # ""

\* What GET /api/expenses answers when the parameters that filter are those
\* Filters holds of: 404 if the category parameter filters and names no
\* category; otherwise 200 and exactly the expenses of the named category
\* (if the category parameter filters) whose date is the date parameter (if
\* it filters), by date non-increasing.  No row changes.
GetExpensesAnswers(Filters(_)) ==
  Handles("GET", "expenses") =>
    LET X == request.data.category
        D == request.data.date
        named == CategoriesNamed(categories, X.str)
        wanted == {e \in expenses :
                     /\ Filters(X) => \E c \in named : e.category_id = c.id
                     /\ Filters(D) => e.date = D.str}
        items == response'.items
    IN /\ TablesUnchanged
       /\ IF Filters(X) /\ named = {}
          THEN response'.status = 404
          ELSE /\ response'.status = 200
               /\ Len(items) = Cardinality(wanted)
               /\ {items[i] : i \in 1..Len(items)} = {ExpenseDict(e, categories) : e \in wanted}
               /\ \A i, j \in 1..Len(items) : i < j => ~StrLess(items[i].date, items[j].date)

\* C7 as stated: GET /api/expenses answers all expenses without filter,
\* those of category X with category=X, those of date D with date=D, both
\* with both, by date non-increasing, 404 when X names no category, and
\* changes no row - for every parameter given.
C7_ListingAsStated == [][GetExpensesAnswers(ParameterGiven)]_vars

\* C7 amended: the same for parameters given non-empty; an empty category
\* or date parameter does not filter.
C7_ListingNonEmptyFilters == [][GetExpensesAnswers(ParameterNonEmpty)]_vars

\* C7 witness: a listing filtered by category holds two expenses of
\* different dates.
C7_Witness ==
  /\ Answered("GET", "expenses", 200)
  /\ ParameterNonEmpty(request.data.category)
  /\ Len(response.items) = 2
  /\ response.items[1].date # response.items[2].date

\* C8: DELETE /api/reset_data either answers 200 with the number of
\* expenses there were and leaves none, or answers 500 and leaves the
\* expenses as they were; it never changes the categories.
C8_ResetIsAllOrNothing ==
  [][Handles("DELETE", "reset_data") =>
       /\ categories' = categories
       /\ \/ (response'.status = 200 /\ response'.n = Cardinality(expenses) /\ expenses' = {})
          \/ (response'.status = 500 /\ expenses' = expenses)]_vars

\* C8 witness: a reset of a store with expenses failed and they are all there.
C8_Witness ==
  /\ Answered("DELETE", "reset_data", 500)
  /\ Cardinality(expenses) >= 2

\* The budget field is negative or does not read as a number (true and
\* false aside, which float() reads as 1 and 0).
BadBudget(v) == v.kind # "bool" /\ (~IsNumeric(v) \/ NumericValue(v) < 0)

\* C9: POST of a category with a non-empty unused name, and PUT of an
\* existing category with a valid name, answer 400 and change no row when
\* the budget sent is negative or not a number (null included for POST; for
\* PUT null counts as omitted); with the budget omitted POST stores 0 and
\* PUT keeps the budget; every stored budget is >= 0.
C9_BudgetsValidated ==
  [][/\ \A c \in categories' : c.budget >= 0
     /\ (Handles("POST", "categories")
           /\ Truthy(request.data.name)
           /\ CategoriesNamed(categories, request.data.name.str) = {})
        => IF request.data.budget.kind = "absent"
           THEN \E c \in categories' : c.name = request.data.name.str /\ c.budget = 0
           ELSE BadBudget(request.data.budget) => (response'.status = 400 /\ TablesUnchanged)
     /\ (Handles("PUT", "category")
           /\ Truthy(request.data.name)
           /\ \E c \in categories : c.id = request.id
           /\ ~\E d \in categories : d.id # request.id /\ d.name = request.data.name.str)
        => IF request.data.budget.kind \in {"absent", "null"}
           THEN \E c \in categories, d \in categories' :
                  c.id = request.id /\ d.id = request.id /\ d.budget = c.budget
           ELSE BadBudget(request.data.budget) => (response'.status = 400 /\ TablesUnchanged)]_vars

\* C10: DELETE of the category named 'Outros' re-creates it: afterwards a
\* category named 'Outros' exists under another id and every expense that
\* was on the old one is on the new one.
C10_DeletingOutrosRecreatesIt ==
  [][(Handles("DELETE", "category")
        /\ \E c \in categories : c.id = request.id /\ c.name = OUTROS)
     => \E o \in categories' :
          /\ o.name = OUTROS
          /\ o.id # request.id
          /\ \A e \in expenses :
               e.category_id = request.id => [e EXCEPT !.category_id = o.id] \in expenses']_vars

====
